---------------------------- MODULE Spec2Model ----------------------------
(***************************************************************************)
(* Model of the two plugins of the derJD.general collection:               *)
(*   plugins/inventory/http.py  InventoryModule (HTTP inventory source)    *)
(*   plugins/filter/dict2ini.py dict2ini        (nested dict -> records)   *)
(*                                                                         *)
(* Spec        : one InventoryModule instance, constructed once and then   *)
(*               asked to parse any number of configuration files.         *)
(* SpecFlatten : one run of dict2ini over a bounded input mapping.         *)
(*                                                                         *)
(* parse is one synchronous handler.  It is cut at the points where the    *)
(* outside world answers (an HTTP response arrives) or observes (a request *)
(* leaves, a batch of calls reaches the inventory); pc names the cut and   *)
(* exactly one action is enabled in every state of a running parse, so the *)
(* cuts add no interleaving.                                               *)
(***************************************************************************)
EXTENDS Naturals, Sequences, FiniteSets

VARIABLES
    environ,       \* os.environ as read by getenv: HTTP_URL, HTTP_AUTH_METHOD, ...
    url,           \* self.url
    auth_method,   \* self.auth_method
    username,      \* self.username
    password,      \* self.password
    data,          \* self.data: <<>> is None, <<d>> is the document d
    pc,            \* position of the running parse call
    options,       \* the options declared by the file given to the running parse
    requests,      \* HTTP requests issued by the running parse, in order
    oauth,         \* get_gitlab_page: what the XPath lookups find in the login page
    r,             \* the response handed to is_valid_content: <<>> or <<response>>
    fetched,       \* what the fetch of the running parse returned: <<>> or <<d>>
    calls,         \* calls that reached the inventory sink in the running parse
    raised,        \* the exception that ended the running parse ("" if none)
    message,       \* the text of that exception: [text, code]
    fl_data,       \* dict2ini: the argument data
    fl_quote,      \* dict2ini: the argument quote
    fl_section,    \* dict2ini: position of the outer loop
    fl_option,     \* dict2ini: position of the inner loop
    ret,           \* dict2ini: the list ret
    fl_pc          \* dict2ini: "idle", "loop" or "returned"

http_vars == <<environ, url, auth_method, username, password, data, pc, options,
               requests, oauth, r, fetched, calls, raised, message>>
fl_vars == <<fl_data, fl_quote, fl_section, fl_option, ret, fl_pc>>
vars == <<http_vars, fl_vars>>

----------------------------------------------------------------------------
(* Values *)

\* Python's None (a value distinct from the string "None").
None == "<None>"

\* Status codes at and above this one are refused.
StatusLimit == 300

\* What getenv can return for each variable, and what get_option can return
\* for each option of the configuration file.
EnvUrls == {None, "http://env"}
EnvAuthMethods == {None, "basic", "gitlab", "token"}
EnvUsernames == {None, "env_user"}
EnvPasswords == {None, "env_pw"}
OptUrls == {None, "http://file"}
OptAuthMethods == {None, "None", "basic", "gitlab", "token"}
OptUsernames == {None, "file_user"}
OptPasswords == {None, "file_pw"}

Settings(urls, methods, users, pws) ==
    [url : urls, auth_method : methods, username : users, password : pws]

\* One top-level entry of an inventory document, in the document's key order.
Meta(hostvars) ==
    [key |-> "_meta", hostvars |-> hostvars, has_hosts |-> FALSE, hosts |-> <<>>,
     has_children |-> FALSE, children |-> <<>>]
Group(name, has_hosts, hosts, has_children, children) ==
    [key |-> name, hostvars |-> <<>>, has_hosts |-> has_hosts, hosts |-> hosts,
     has_children |-> has_children, children |-> children]

\* Inventory documents a server can return (`ansible-inventory --list` shape).
DocExample ==
    << Meta(<<"h1">>),
       Group("g1", TRUE, <<"h1">>, FALSE, <<>>),
       Group("g2", FALSE, <<>>, TRUE, <<"g1">>) >>
DocMixed ==
    << Group("g2", TRUE, <<"h2">>, TRUE, <<"g1", "g3">>),
       Meta(<<"h2", "h1">>),
       Group("g1", TRUE, <<"h1", "h2">>, TRUE, <<>>),
       Group("g3", FALSE, <<>>, FALSE, <<>>) >>
DocEmpty == << Meta(<<>>) >>
Documents == {DocExample, DocMixed, DocEmpty}

\* A Content-Type header value, cut into tokens; <<>> stands for no header.
ContentTypes ==
    { <<"text", "/", "html">>,
      <<"application", "/", "json">>,
      <<"application", "/", "vnd.api+", "json">> }
Headers == {<<>>} \cup { <<ct>> : ct \in ContentTypes }
StatusCodes == {200, StatusLimit, 404}
Responses == [status_code : StatusCodes, headers : Headers, body : Documents]

\* The login page as the two XPath lookups see it: each a list of matches.
LoginPages == [meta : {<<>>, <<"http://login">>}, input : {<<>>, <<"csrf">>}]

NoMessage == [text |-> "", code |-> 0]

----------------------------------------------------------------------------
(* http.py: pure parts *)

\* "json" in data.headers['Content-Type']
ContainsJson(ct) == \E i \in 1..Len(ct) : ct[i] = "json"

\* is_valid_content(data): the exception it raises ("" when it returns True).
\* Both verbose lines are evaluated first; the first one indexes the header.
is_valid_content(resp) ==
    IF resp.headers = <<>> THEN
        [raised |-> "KeyError", message |-> [text |-> "Content-Type", code |-> 0]]
    ELSE IF resp.status_code >= StatusLimit THEN
        [raised |-> "AnsibleError",
         message |-> [text |-> "Server returned status code", code |-> resp.status_code]]
    ELSE IF ContainsJson(resp.headers[1]) THEN
        [raised |-> "", message |-> NoMessage]
    ELSE
        [raised |-> "AnsibleParserError",
         message |-> [text |-> "did not return json", code |-> 0]]

\* GenericRequest with `and` for `or`: credentials are left out only when both the
\* username and the password are None.
GenericRequest_either ==
    [method |-> "GET", url |-> url,
     auth |-> IF username = None /\ password = None THEN <<>>
              ELSE <<username, password>>,
     data |-> <<>>, session |-> FALSE]

\* requests.get(self.url) or requests.get(self.url, auth=(username, password))
GenericRequest ==
    [method |-> "GET", url |-> url,
     auth |-> IF username = None \/ password = None THEN <<>>
              ELSE <<username, password>>,
     data |-> <<>>, session |-> FALSE]

\* The form posted by get_gitlab_page, and resent with its last GET.
GitlabAuth == <<oauth.input[1], username, password>>

SessionRequest(method, to, form) ==
    [method |-> method, url |-> to, auth |-> <<>>, data |-> form, session |-> TRUE]

Call(op, a, b) == [op |-> op, a |-> a, b |-> b]

\* add_hostvars(data): one _populate_host_vars call per key of _meta.hostvars.
RECURSIVE MetaHostvars(_)
MetaHostvars(doc) ==
    IF doc = <<>> THEN <<>>
    ELSE IF Head(doc).key = "_meta" THEN Head(doc).hostvars
    ELSE MetaHostvars(Tail(doc))

HostvarsCalls(doc) ==
    LET hostvars == MetaHostvars(doc)
    IN [i \in 1..Len(hostvars) |-> Call("_populate_host_vars", hostvars[i], "")]

\* GroupCalls without the tests on mode: hosts and children are both assigned in
\* whichever pass visits the group.
GroupCalls_one_pass(g, mode) ==
    <<Call("add_group", g.key, "")>>
    \o (IF g.has_hosts
        THEN [i \in 1..Len(g.hosts) |-> Call("add_host", g.hosts[i], g.key)]
        ELSE <<>>)
    \o (IF g.has_children
        THEN [i \in 1..Len(g.children) |-> Call("add_child", g.key, g.children[i])]
        ELSE <<>>)

\* add_groups(groups, mode): the calls of one group in one pass.
GroupCalls(g, mode) ==
    <<Call("add_group", g.key, "")>>
    \o (IF mode = "hosts" /\ g.has_hosts
        THEN [i \in 1..Len(g.hosts) |-> Call("add_host", g.hosts[i], g.key)]
        ELSE <<>>)
    \o (IF mode = "children" /\ g.has_children
        THEN [i \in 1..Len(g.children) |-> Call("add_child", g.key, g.children[i])]
        ELSE <<>>)

\* add_groups(groups, mode): the calls of one pass over the top-level keys.
RECURSIVE GroupsCalls(_, _)
GroupsCalls(groups, mode) ==
    IF groups = <<>> THEN <<>>
    ELSE (IF Head(groups).key = "_meta" THEN <<>> ELSE GroupCalls(Head(groups), mode))
         \o GroupsCalls(Tail(groups), mode)

----------------------------------------------------------------------------
(* http.py: the state machine *)

FlattenIdle ==
    /\ fl_data = <<>>
    /\ fl_quote = TRUE
    /\ fl_section = 1
    /\ fl_option = 1
    /\ ret = <<>>
    /\ fl_pc = "idle"

\* __init__: the four settings are read from the environment, data is None.
Init ==
    /\ environ \in Settings(EnvUrls, EnvAuthMethods, EnvUsernames, EnvPasswords)
    /\ url = environ.url
    /\ auth_method = environ.auth_method
    /\ username = environ.username
    /\ password = environ.password
    /\ data = <<>>
    /\ pc = "idle"
    /\ options = [url |-> None, auth_method |-> None, username |-> None,
                  password |-> None]
    /\ requests = <<>>
    /\ oauth = [meta |-> <<>>, input |-> <<>>]
    /\ r = <<>>
    /\ fetched = <<>>
    /\ calls = <<>>
    /\ raised = ""
    /\ message = NoMessage
    /\ FlattenIdle

Raise(kind, msg) ==
    /\ raised' = kind
    /\ message' = msg
    /\ pc' = "raised"

\* The branch parse takes once the settings are resolved.
Dispatch(method) ==
    IF method \in {None, "None", "basic"} THEN "get_generic_page"
    ELSE IF method = "gitlab" THEN "get_gitlab_page"
    ELSE "check_data"

\* A setting keeps the value it has unless that value is None.
Resolve(current, option) == IF current = None THEN option ELSE current

\* parse, up to the branch on auth_method: read the file, fill in the settings
\* that are still None, refuse a missing url.
parse(opts) ==
    /\ pc = "idle"
    /\ options' = opts
    /\ url' = Resolve(url, opts.url)
    /\ auth_method' = Resolve(auth_method, opts.auth_method)
    /\ username' = Resolve(username, opts.username)
    /\ password' = Resolve(password, opts.password)
    /\ requests' = <<>>
    /\ oauth' = [meta |-> <<>>, input |-> <<>>]
    /\ r' = <<>>
    /\ fetched' = <<>>
    /\ calls' = <<>>
    /\ IF url' = None
       THEN Raise("AnsibleError", [text |-> "url is missing", code |-> 0])
       ELSE /\ raised' = ""
            /\ message' = NoMessage
            /\ pc' = Dispatch(auth_method')
    /\ UNCHANGED <<environ, data>>

\* Validate with the host variables of the body handed to the inventory before
\* the response is validated.
Validate_populate_first(resp) ==
    LET v == is_valid_content(resp)
    IN /\ r' = <<resp>>
       /\ calls' = calls \o HostvarsCalls(resp.body)
       /\ IF v.raised = ""
          THEN /\ data' = <<resp.body>>
               /\ fetched' = <<resp.body>>
               /\ raised' = ""
               /\ message' = NoMessage
               /\ pc' = "check_data"
          ELSE /\ Raise(v.raised, v.message)
               /\ UNCHANGED <<data, fetched>>

\* if self.is_valid_content(r): return r.json(), and the assignment to self.data.
Validate(resp) ==
    LET v == is_valid_content(resp)
    IN /\ r' = <<resp>>
       /\ calls' = calls
       /\ IF v.raised = ""
          THEN /\ data' = <<resp.body>>
               /\ fetched' = <<resp.body>>
               /\ raised' = ""
               /\ message' = NoMessage
               /\ pc' = "check_data"
          ELSE /\ Raise(v.raised, v.message)
               /\ UNCHANGED <<data, fetched>>

\* self.data = self.get_generic_page()
get_generic_page(resp) ==
    /\ pc = "get_generic_page"
    /\ requests' = Append(requests, GenericRequest)
    /\ Validate(resp)
    /\ UNCHANGED <<environ, url, auth_method, username, password, options, oauth>>

\* get_gitlab_page: oauth = session.get(self.url) and the two XPath lookups.
get_gitlab_page(page) ==
    /\ pc = "get_gitlab_page"
    /\ requests' = Append(requests, SessionRequest("GET", url, <<>>))
    /\ oauth' = page
    /\ IF page.meta = <<>> \/ page.input = <<>>
       THEN Raise("IndexError", [text |-> "list index out of range", code |-> 0])
       ELSE /\ pc' = "session_post"
            /\ UNCHANGED <<raised, message>>
    /\ UNCHANGED <<environ, url, auth_method, username, password, data, options, r,
                   fetched, calls>>

\* get_gitlab_page: session.post(login_url, data=auth)
session_post ==
    /\ pc = "session_post"
    /\ requests' = Append(requests, SessionRequest("POST", oauth.meta[1], GitlabAuth))
    /\ pc' = "session_get"
    /\ UNCHANGED <<environ, url, auth_method, username, password, data, options,
                   oauth, r, fetched, calls, raised, message>>

\* get_gitlab_page: r = session.get(self.url, data=auth) and its validation.
session_get(resp) ==
    /\ pc = "session_get"
    /\ requests' = Append(requests, SessionRequest("GET", url, GitlabAuth))
    /\ Validate(resp)
    /\ UNCHANGED <<environ, url, auth_method, username, password, options, oauth>>

\* if self.data is None: raise AnsibleParserError(...)
check_data ==
    /\ pc = "check_data"
    /\ IF data = <<>>
       THEN Raise("AnsibleParserError",
                  [text |-> "Did not received any data", code |-> 0])
       ELSE /\ pc' = "add_hostvars"
            /\ UNCHANGED <<raised, message>>
    /\ UNCHANGED <<environ, url, auth_method, username, password, data, options,
                   requests, oauth, r, fetched, calls>>

\* self.add_hostvars(self.data)
add_hostvars ==
    /\ pc = "add_hostvars"
    /\ calls' = calls \o HostvarsCalls(data[1])
    /\ pc' = "add_groups_hosts"
    /\ UNCHANGED <<environ, url, auth_method, username, password, data, options,
                   requests, oauth, r, fetched, raised, message>>

\* self.add_groups(self.data, "hosts") and self.add_groups(self.data, "children")
add_groups(mode) ==
    /\ pc = IF mode = "hosts" THEN "add_groups_hosts" ELSE "add_groups_children"
    /\ calls' = calls \o GroupsCalls(data[1], mode)
    /\ pc' = IF mode = "hosts" THEN "add_groups_children" ELSE "returned"
    /\ UNCHANGED <<environ, url, auth_method, username, password, data, options,
                   requests, oauth, r, fetched, raised, message>>

\* parse has returned or raised: control is back in the caller, which holds the
\* plugin object and may hand it another file.  Nothing of the call survives but
\* the fields of self.
back_to_caller ==
    /\ pc \in {"returned", "raised"}
    /\ pc' = "idle"
    /\ options' = [url |-> None, auth_method |-> None, username |-> None,
                   password |-> None]
    /\ requests' = <<>>
    /\ oauth' = [meta |-> <<>>, input |-> <<>>]
    /\ r' = <<>>
    /\ fetched' = <<>>
    /\ calls' = <<>>
    /\ raised' = ""
    /\ message' = NoMessage
    /\ UNCHANGED <<environ, url, auth_method, username, password, data>>

Next ==
    \/ /\ \E opts \in Settings(OptUrls, OptAuthMethods, OptUsernames, OptPasswords) :
              parse(opts)
       /\ UNCHANGED fl_vars
    \/ /\ \E resp \in Responses : get_generic_page(resp)
       /\ UNCHANGED fl_vars
    \/ /\ \E page \in LoginPages : get_gitlab_page(page)
       /\ UNCHANGED fl_vars
    \/ /\ session_post
       /\ UNCHANGED fl_vars
    \/ /\ \E resp \in Responses : session_get(resp)
       /\ UNCHANGED fl_vars
    \/ /\ check_data
       /\ UNCHANGED fl_vars
    \/ /\ add_hostvars
       /\ UNCHANGED fl_vars
    \/ /\ \E mode \in {"hosts", "children"} : add_groups(mode)
       /\ UNCHANGED fl_vars
    \/ /\ back_to_caller
       /\ UNCHANGED fl_vars

Spec == Init /\ [][Next]_vars

----------------------------------------------------------------------------
(* dict2ini.py *)

\* Largest number of sections, and of options in one section, of an input.
MaxSections == 2
MaxOptions == 2

\* Keys of a dict are distinct: the key at a position is named after it.
SectionNames == <<"ima_1_section", "ima_2_section", "ima_3_section", "ima_4_section">>
OptionNames == <<"ima_1_option", "ima_2_option", "ima_3_option", "ima_4_option">>

\* A value is a str or something else (here an int); is_str is isinstance(value, str).
Str(s) == [is_str |-> TRUE, str |-> s, num |-> 0]
Int(n) == [is_str |-> FALSE, str |-> "", num |-> n]
Values == {Str("ima_value"), Int(5)}

\* The inputs: dicts of dicts, each as the list of its items in iteration order.
ElementLists ==
    UNION { [1..k -> Values] : k \in 0..MaxOptions }
Elements(vs) ==
    [j \in 1..Len(vs) |-> [option |-> OptionNames[j], value |-> vs[j]]]
Mappings ==
    UNION { { [i \in 1..n |-> [section |-> SectionNames[i], elements |-> Elements(f[i])]]
              : f \in [1..n -> ElementLists] }
            : n \in 0..MaxSections }

\* QuoteValue without the test on quote.
QuoteValue_ignores_quote(value, quote) ==
    IF value.is_str THEN Str("\"" \o value.str \o "\"") ELSE value

\* if isinstance(value, str) and quote: value = f'"{value}"'
QuoteValue(value, quote) ==
    IF value.is_str /\ quote THEN Str("\"" \o value.str \o "\"") ELSE value

\* dict(section=section, option=option, value=value)
Record(section, option, value) ==
    [section |-> section, option |-> option, value |-> value]

HttpIdle ==
    /\ environ = [url |-> None, auth_method |-> None, username |-> None,
                  password |-> None]
    /\ url = None
    /\ auth_method = None
    /\ username = None
    /\ password = None
    /\ data = <<>>
    /\ pc = "idle"
    /\ options = [url |-> None, auth_method |-> None, username |-> None,
                  password |-> None]
    /\ requests = <<>>
    /\ oauth = [meta |-> <<>>, input |-> <<>>]
    /\ r = <<>>
    /\ fetched = <<>>
    /\ calls = <<>>
    /\ raised = ""
    /\ message = NoMessage

\* dict2ini(data, quote) is entered: ret = []
InitFlatten ==
    /\ fl_data \in Mappings
    /\ fl_quote \in BOOLEAN
    /\ fl_section = 1
    /\ fl_option = 1
    /\ ret = <<>>
    /\ fl_pc = "loop"
    /\ HttpIdle

\* One turn of the inner loop: quote the value if asked to, append the record.
dict2ini_append ==
    /\ fl_pc = "loop"
    /\ fl_section <= Len(fl_data)
    /\ fl_option <= Len(fl_data[fl_section].elements)
    /\ LET section == fl_data[fl_section].section
           item == fl_data[fl_section].elements[fl_option]
       IN ret' = Append(ret, Record(section, item.option,
                                    QuoteValue(item.value, fl_quote)))
    /\ fl_option' = fl_option + 1
    /\ UNCHANGED <<fl_data, fl_quote, fl_section, fl_pc>>

\* The inner loop is exhausted: the outer loop takes the next section.
dict2ini_next_section ==
    /\ fl_pc = "loop"
    /\ fl_section <= Len(fl_data)
    /\ fl_option > Len(fl_data[fl_section].elements)
    /\ fl_section' = fl_section + 1
    /\ fl_option' = 1
    /\ UNCHANGED <<fl_data, fl_quote, ret, fl_pc>>

\* return ret
dict2ini_return ==
    /\ fl_pc = "loop"
    /\ fl_section > Len(fl_data)
    /\ fl_pc' = "returned"
    /\ UNCHANGED <<fl_data, fl_quote, fl_section, fl_option, ret>>

NextFlatten ==
    \/ /\ dict2ini_append
       /\ UNCHANGED http_vars
    \/ /\ dict2ini_next_section
       /\ UNCHANGED http_vars
    \/ /\ dict2ini_return
       /\ UNCHANGED http_vars

SpecFlatten == InitFlatten /\ [][NextFlatten]_vars

----------------------------------------------------------------------------
(* Properties of the inventory source *)

Ended == pc \in {"returned", "raised"}
Populating == pc \in {"add_hostvars", "add_groups_hosts", "add_groups_children",
                      "returned"}
Indexes(seq) == 1..Len(seq)
Ops(op) == { i \in Indexes(calls) : calls[i].op = op }
GroupOps == Ops("add_group") \cup Ops("add_host") \cup Ops("add_child")

\* The value a setting has when the environment comes first and the file second.
Layered(setting) ==
    IF environ[setting] # None THEN environ[setting] ELSE options[setting]

\* C1: in every parse that populates, each _populate_host_vars call (one per key
\* of _meta.hostvars, in key order) precedes every add_group, add_host and
\* add_child call, and each add_host call precedes every add_child call.
C1_PopulationOrder ==
    /\ \A i \in Ops("_populate_host_vars") : \A j \in GroupOps : i < j
    /\ \A i \in Ops("add_host") : \A j \in Ops("add_child") : i < j
    /\ pc \in {"add_groups_hosts", "add_groups_children", "returned"} =>
           \E k \in Indexes(data[1]) :
               /\ data[1][k].key = "_meta"
               /\ Cardinality(Ops("_populate_host_vars")) = Len(data[1][k].hostvars)
               /\ \A i \in Indexes(data[1][k].hostvars) :
                      calls[i] = Call("_populate_host_vars", data[1][k].hostvars[i], "")

\* A document whose first key is a group with hosts and children and whose _meta
\* comes second has been populated to the end.
C1_Witness ==
    /\ pc = "returned"
    /\ data = <<DocMixed>>
    /\ Ops("add_host") # {}
    /\ Ops("add_child") # {}
    /\ Cardinality(Ops("_populate_host_vars")) = 2

\* C2: with url absent from HTTP_URL and from the file, a parse has failed with
\* AnsibleError 'url is missing' and has issued no request.
C2_MissingUrl ==
    (pc # "idle" /\ environ.url = None /\ options.url = None) =>
        /\ pc = "raised"
        /\ raised = "AnsibleError"
        /\ message.text = "url is missing"
        /\ requests = <<>>

\* C3: a validated response with a status code >= 300 ends the load with an
\* AnsibleError that carries the status code, whatever its headers and body.
C3_StatusDecides ==
    (r # <<>> /\ r[1].status_code >= StatusLimit) =>
        /\ raised = "AnsibleError"
        /\ message.code = r[1].status_code

\* C4: a validated response with a status code < 300 ends the load with an
\* AnsibleParserError when its Content-Type does not contain "json"; otherwise
\* its body is what the fetch returns and what is populated.
C4_ContentType ==
    (r # <<>> /\ r[1].status_code < StatusLimit) =>
        IF r[1].headers # <<>> /\ ContainsJson(r[1].headers[1])
        THEN /\ raised = ""
             /\ fetched = <<r[1].body>>
             /\ data = <<r[1].body>>
        ELSE raised = "AnsibleParserError"

\* C5: each setting the fetch uses is the environment's value when the variable
\* is set and the file's option otherwise.
C5_LayeredSettings ==
    requests # <<>> =>
        /\ requests[1].url = Layered("url")
        /\ requests[1].session = (Layered("auth_method") = "gitlab")
        /\ ~requests[1].session =>
               /\ Layered("auth_method") \in {None, "None", "basic"}
               /\ requests[1].auth # <<>> =>
                      requests[1].auth = <<Layered("username"), Layered("password")>>
               /\ requests[1].auth = <<>> =>
                      (Layered("username") = None \/ Layered("password") = None)
        /\ Len(requests) >= 2 =>
               /\ requests[2].data[2] = Layered("username")
               /\ requests[2].data[3] = Layered("password")

C7_NoPartialResult ==
    raised \in {"AnsibleError", "AnsibleParserError"} => calls = <<>>

\* The gitlab path has logged in and its last response, which is not JSON, has
\* ended the parse with AnsibleParserError.
C7_Witness ==
    /\ pc = "raised"
    /\ raised = "AnsibleParserError"
    /\ message.text = "did not return json"
    /\ Len(requests) = 3

\* C9: the fetch of every parse works with the settings layered afresh from the
\* environment and the file of that parse, a parse populates only the document
\* its own fetch returned, and a parse that fetched nothing ends with
\* AnsibleParserError 'Did not received any data'.
C9_NoSharedState ==
    /\ requests # <<>> =>
           /\ url = Layered("url")
           /\ Dispatch(auth_method) = Dispatch(Layered("auth_method"))
           /\ username = Layered("username")
           /\ password = Layered("password")
    /\ (Populating /\ raised = "") => (fetched # <<>> /\ data = fetched)
    /\ (Ended /\ url # None /\ requests = <<>>) =>
           /\ raised = "AnsibleParserError"
           /\ message.text = "Did not received any data"

\* The requests a parse issues when nothing stops it, by path.
ExpectedGeneric ==
    << [method |-> "GET", url |-> url,
        auth |-> IF username # None /\ password # None
                 THEN <<username, password>> ELSE <<>>,
        data |-> <<>>, session |-> FALSE] >>
ExpectedGitlab ==
    LET form == <<oauth.input[1], username, password>>
    IN << [method |-> "GET", url |-> url, auth |-> <<>>, data |-> <<>>,
           session |-> TRUE],
          [method |-> "POST", url |-> oauth.meta[1], auth |-> <<>>, data |-> form,
           session |-> TRUE],
          [method |-> "GET", url |-> url, auth |-> <<>>, data |-> form,
           session |-> TRUE] >>
IsPrefix(s, t) == Len(s) <= Len(t) /\ \A i \in Indexes(s) : s[i] = t[i]
GenericPath == url # None /\ auth_method \in {None, "None", "basic"}
GitlabPath == url # None /\ auth_method = "gitlab"
LoginFound == oauth.meta # <<>> /\ oauth.input # <<>>

----------------------------------------------------------------------------
(* Properties of dict2ini *)

\* The list the claim describes: sections in order, options in order, one record
\* per option, a str value in double quotes when quote is set.
ReferenceValue(value, quote) ==
    IF quote
    THEN (IF value.is_str
          THEN [is_str |-> TRUE, str |-> "\"" \o value.str \o "\"", num |-> 0]
          ELSE value)
    ELSE value

ReferenceSection(sec, quote) ==
    [j \in Indexes(sec.elements) |->
        [section |-> sec.section, option |-> sec.elements[j].option,
         value |-> ReferenceValue(sec.elements[j].value, quote)]]

RECURSIVE Reference(_, _)
Reference(mapping, quote) ==
    IF mapping = <<>> THEN <<>>
    ELSE ReferenceSection(Head(mapping), quote) \o Reference(Tail(mapping), quote)

RECURSIVE OptionCount(_)
OptionCount(mapping) ==
    IF mapping = <<>> THEN 0
    ELSE Len(Head(mapping).elements) + OptionCount(Tail(mapping))

=============================================================================
